---- MODULE Spec2Model ----
(***************************************************************************)
(* A model of src/script.js: the Task record, the TaskManager (the task    *)
(* store with its sort and its localStorage persistence), and the page:     *)
(* the rendered lists, the selection, the confirm dialog and the event      *)
(* handlers.  Spec is the TaskManager called directly, SpecUI is the page   *)
(* driven by its events.                                                    *)
(*                                                                         *)
(* JavaScript values are modelled as follows.                               *)
(*  - A Date object is its time value: an integer number of milliseconds,   *)
(*    or NaN for an Invalid Date.  Days are counted from a base day, so     *)
(*    that the time values stay small.                                      *)
(*  - A date string is a record: [fmt |-> "iso", ...] is the text           *)
(*    Date.prototype.toISOString produces (UTC fields), [fmt |->            *)
(*    "datetime-local", ...] is the value of the form's datetime-local      *)
(*    input (local wall-clock fields), [fmt |-> "text", s |-> ...] is any   *)
(*    other text, the empty string included.                                *)
(*  - The value of localStorage.getItem('tasks') is a record: kind "null"   *)
(*    (no record under the key), "empty" (the empty string), "garbage"      *)
(*    (text JSON.parse rejects), "object" (JSON that is not an array) or    *)
(*    "array" with its items; an item is the JSON null, a JSON number or    *)
(*    an object, and an object is a record holding the properties the JSON  *)
(*    text has.                                                             *)
(*  - The value undefined, as a name, description or priority, is the       *)
(*    string "undefined"; no input of the model holds that text.            *)
(***************************************************************************)
EXTENDS Integers, Sequences, FiniteSets, TLC

VARIABLES
    tasks,      \* TaskManager.tasks: the in-memory store, a sequence of Task
    storage,    \* localStorage['tasks']
    now,        \* the value Date.now() returns
    lastOp,     \* the last TaskManager call (Spec) or event handler (SpecUI):
                \* [op |-> its name, ret |-> its result]
    selectedTaskId,          \* let selectedTaskId
    currentConfirmCallback,  \* let currentConfirmCallback
    upcomingTasksList,       \* the task items of #upcoming-tasks-list: the
                             \* tasks as they were rendered, in document order
    completedTasksList,      \* the task items of #completed-tasks-list
    progressText,            \* what #progress-text shows
    requestedTaskId          \* history: selectedTaskId as it was when the
                             \* pending confirm callback was installed

page == <<selectedTaskId, currentConfirmCallback, upcomingTasksList,
          completedTasksList, progressText, requestedTaskId>>

vars == <<tasks, storage, now, lastOp, page>>

-----------------------------------------------------------------------------
(* Bounds of the model *)

\* add is not called on a store that already holds MaxTasks tasks
MaxTasks == 2
\* the clock does not advance past MaxNow
MaxNow == 4

-----------------------------------------------------------------------------
(* Dates *)

MsPerSecond == 10 * 100
MsPerMinute == 60 * MsPerSecond
MsPerHour == 60 * MsPerMinute
MsPerDay == 24 * MsPerHour

\* The time value of an Invalid Date, and the number NaN in general.
NaN == 0 - 20 * MsPerDay

Undefined == "undefined"

\* The value null of selectedTaskId and currentConfirmCallback
Null == "null"

\* The host's local time is UTC + HostOffsetMs.
HostOffsetMs == 2 * MsPerHour

\* new Date(s).getTime() for a date string s.
DateParse(s) ==
    IF s.fmt = "iso"
        /\ s.hh \in 0..23 /\ s.mm \in 0..59 /\ s.ss \in 0..59 /\ s.ms \in 0..999
    THEN s.day * MsPerDay + s.hh * MsPerHour + s.mm * MsPerMinute
             + s.ss * MsPerSecond + s.ms
    ELSE IF s.fmt = "datetime-local" /\ s.hh \in 0..23 /\ s.mm \in 0..59
    THEN s.day * MsPerDay + s.hh * MsPerHour + s.mm * MsPerMinute - HostOffsetMs
    ELSE NaN

\* toISOString cut to whole seconds
ToISOStringSeconds(t) ==
    [fmt |-> "iso",
     day |-> t \div MsPerDay,
     hh  |-> (t % MsPerDay) \div MsPerHour,
     mm  |-> (t % MsPerHour) \div MsPerMinute,
     ss  |-> (t % MsPerMinute) \div MsPerSecond,
     ms  |-> 0]

\* date.toISOString() for a valid time value t (it throws a RangeError on NaN).
ToISOString(t) ==
    [fmt |-> "iso",
     day |-> t \div MsPerDay,
     hh  |-> (t % MsPerDay) \div MsPerHour,
     mm  |-> (t % MsPerHour) \div MsPerMinute,
     ss  |-> (t % MsPerMinute) \div MsPerSecond,
     ms  |-> t % MsPerSecond]

-----------------------------------------------------------------------------
(* Task *)

\* new Task(name, description, dueDate, priority, isCompleted) at clock t
Task(t, name, description, dueDate, priority, isCompleted) ==
    [id          |-> ToString(t),
     name        |-> name,
     description |-> description,
     dueDate     |-> dueDate,
     priority    |-> priority,
     isCompleted |-> isCompleted]

-----------------------------------------------------------------------------
(* TaskManager.sortTasks *)

priorityOrder == [High |-> 1, Medium |-> 2, Low |-> 3]

\* priorityOrder[p] as a number: a p that is no key of priorityOrder gives
\* undefined, which is equal to itself only and is NaN in a subtraction.
PriorityRank(p) == IF p \in DOMAIN priorityOrder THEN priorityOrder[p] ELSE NaN

\* The comparator handed to Array.prototype.sort; its result is a number,
\* NaN when a due date is invalid or one priority has no rank.
CompareFn(a, b) ==
    IF a.isCompleted # b.isCompleted
    THEN (IF a.isCompleted THEN 1 ELSE -1)
    ELSE IF PriorityRank(a.priority) # PriorityRank(b.priority)
    THEN (IF PriorityRank(a.priority) = NaN \/ PriorityRank(b.priority) = NaN
          THEN NaN
          ELSE PriorityRank(a.priority) - PriorityRank(b.priority))
    ELSE IF a.dueDate = NaN \/ b.dueDate = NaN
    THEN NaN
    ELSE a.dueDate - b.dueDate

\* Array.prototype.sort reads a NaN from the comparator as +0.
SortCompare(a, b) ==
    LET v == CompareFn(a, b) IN IF v = NaN THEN 0 ELSE v

Range(s) == {s[i] : i \in 1..Len(s)}

\* ECMAScript's conditions on a "consistent comparison function", for the
\* elements of s.  v holds what the comparator answers for each pair of
\* positions of s, row by row.
ConsistencyConditions(s) ==
    LET n == Len(s)
        v == <<>> \o [k \in 1..(n * n) |->
                        SortCompare(s[((k - 1) \div n) + 1], s[((k - 1) % n) + 1])]
        Lt(a, b) == v[(a - 1) * n + b] < 0
        Eq(a, b) == v[(a - 1) * n + b] = 0
        Gt(a, b) == v[(a - 1) * n + b] > 0
    IN  \A a \in 1..n :
          /\ Eq(a, a)
          /\ \A b \in 1..n :
               /\ Eq(a, b) => Eq(b, a)
               /\ Lt(a, b) <=> Gt(b, a)
               /\ \A c \in 1..n :
                    /\ (Eq(a, b) /\ Eq(b, c)) => Eq(a, c)
                    /\ (Lt(a, b) /\ Lt(b, c)) => Lt(a, c)
                    /\ (Gt(a, b) /\ Gt(b, c)) => Gt(a, c)

\* The comparator answers a number for every pair of elements of s.
NeverNaN(s) == \A i, j \in 1..Len(s) : CompareFn(s[i], s[j]) # NaN

\* Whether the comparator is a consistent comparison function for the
\* elements of s.  When it never answers NaN it is the lexicographic
\* comparison of three totally ordered keys, which meets the conditions (see
\* NeverNaNIsConsistent); they are evaluated only when some answer is NaN.
ConsistentComparator(s) == NeverNaN(s) \/ ConsistencyConditions(s)

\* x inserted into the sorted s behind every element that does not sort after it
InsertSorted(s, x) ==
    LET keep == {i \in 1..Len(s) : SortCompare(s[i], x) <= 0}
        k == IF keep = {} THEN 0 ELSE CHOOSE i \in keep : \A j \in keep : j <= i
    IN  SubSeq(s, 1, k) \o <<x>> \o SubSeq(s, k + 1, Len(s))

RECURSIVE StableSort(_)
\* The stable sort of s (Array.prototype.sort is stable).
StableSort(s) ==
    IF s = <<>> THEN <<>>
    ELSE InsertSorted(StableSort(SubSeq(s, 1, Len(s) - 1)), s[Len(s)])

\* The orders of s no adjacent pair of which the comparator reports out of order.
ComparatorOrders(s) ==
    LET n == Len(s)
        perms == {p \in [1..n -> 1..n] : \A i, j \in 1..n : p[i] = p[j] => i = j}
    IN  {q \in {[i \in 1..n |-> s[p[i]]] : p \in perms} :
            \A i \in 1..(n - 1) : SortCompare(q[i], q[i + 1]) <= 0}

\* The stores this.tasks.sort(comparator) may leave.  With a consistent
\* comparator the result is the stable sort.  With an inconsistent one (an
\* Invalid Date compares equal to everything of its completion state and
\* priority) the order is implementation-defined: the engines' insertion and
\* merge sorts end in some order whose adjacent pairs the comparator accepts.
SortTasks(ts) ==
    IF ConsistentComparator(ts) THEN {StableSort(ts)} ELSE ComparatorOrders(ts)

-----------------------------------------------------------------------------
(* Persistence: TaskManager.saveTasks and TaskManager.loadTasks *)

\* localStorage.getItem('tasks') when nothing was stored under the key
NoRecord == [kind |-> "null"]

\* The JSON value null as an item of an array
JsonNull == [json |-> "null"]

\* A JSON number as an item of an array
JsonNumber == [json |-> "number"]

\* JSON.stringify of an array of objects
JsonArray(items) == [kind |-> "array", items |-> items]

\* The object saveTasks writes for one task.
TaskToObject(task) ==
    [id          |-> task.id,
     name        |-> task.name,
     description |-> task.description,
     dueDate     |-> ToISOString(task.dueDate),
     priority    |-> task.priority,
     isCompleted |-> task.isCompleted]

\* saveTasks on the store ts when the record is st: toISOString throws a
\* RangeError on an Invalid Date, before setItem is reached.  (A task with an
\* undefined field has an Invalid Date too, so no undefined is ever written.)
SaveTasks(ts, st) ==
    IF \E i \in 1..Len(ts) : ts[i].dueDate = NaN
    THEN [storage |-> st, threw |-> TRUE]
    ELSE [storage |-> JsonArray([i \in 1..Len(ts) |-> TaskToObject(ts[i])]),
          threw   |-> FALSE]

\* A property of a decoded JSON value that is present and truthy.
Truthy(data, prop) == prop \in DOMAIN data /\ data[prop] # ""

\* data[prop] for a decoded JSON value other than null: undefined when data
\* has no such property, as a number has none.
Get(data, prop) ==
    IF "json" \notin DOMAIN data /\ prop \in DOMAIN data THEN data[prop]
    ELSE Undefined

\* The Task loadTasks builds from the decoded value data; t is what
\* Date.now() returns while it is built.  new Date(undefined) is an Invalid
\* Date, and the constructor's default makes an undefined isCompleted false.
ObjectToTask(data, t) ==
    [Task(t,
          Get(data, "name"),
          Get(data, "description"),
          IF "dueDate" \in DOMAIN data THEN DateParse(data.dueDate) ELSE NaN,
          Get(data, "priority"),
          IF "isCompleted" \in DOMAIN data THEN data.isCompleted ELSE FALSE)
     EXCEPT !.id = IF Truthy(data, "id") THEN data.id ELSE ToString(t)]

\* loadTasks on the record st; clk[i] is Date.now() while item i is decoded.
\* A missing or empty record gives the empty store; so does, through the
\* catch, text that JSON.parse rejects, JSON that has no map method, and an
\* array holding null (reading a property of null throws).  A number in the
\* array has no properties and throws nothing: it becomes a task.
LoadTasks(st, clk) ==
    IF st.kind # "array" THEN <<>>
    ELSE IF \E i \in 1..Len(st.items) : st.items[i] = JsonNull THEN <<>>
    ELSE [i \in 1..Len(st.items) |-> ObjectToTask(st.items[i], clk[i])]

-----------------------------------------------------------------------------
(* TaskManager's operations as functions of the store ts, the record st and *)
(* the clock t: the store and the record they leave and what they return    *)
(* ("true", "false", or "exception" when an exception escapes the call).    *)

Outcome(ts, st, ret) == [tasks |-> ts, storage |-> st, ret |-> ret]

\* addTask without the isNaN check on the parsed date
AddTaskUnchecked(ts, st, t, name, description, dueDateStr, priority) ==
    LET newTask == Task(t, name, description, DateParse(dueDateStr), priority, FALSE)
    IN  {LET saved == SaveTasks(sorted, st)
         IN  Outcome(sorted, saved.storage,
                     IF saved.threw THEN "false" ELSE "true")
         : sorted \in SortTasks(Append(ts, newTask))}

AddTask(ts, st, t, name, description, dueDateStr, priority) ==
    LET dueDate == DateParse(dueDateStr) IN
    IF dueDate = NaN
    THEN {Outcome(ts, st, "false")}
    ELSE LET newTask == Task(t, name, description, dueDate, priority, FALSE)
         IN  {LET saved == SaveTasks(sorted, st)
              IN  Outcome(sorted, saved.storage,
                          IF saved.threw THEN "false" ELSE "true")
              : sorted \in SortTasks(Append(ts, newTask))}

\* removeTask with the filter's test inverted (=== for !==)
RemoveTaskInverted(ts, st, taskId) ==
    LET filtered == SelectSeq(ts, LAMBDA task : task.id = taskId) IN
    IF Len(filtered) < Len(ts)
    THEN LET saved == SaveTasks(filtered, st)
         IN  {Outcome(filtered, saved.storage,
                      IF saved.threw THEN "exception" ELSE "true")}
    ELSE {Outcome(filtered, st, "false")}

RemoveTask(ts, st, taskId) ==
    LET filtered == SelectSeq(ts, LAMBDA task : task.id # taskId) IN
    IF Len(filtered) < Len(ts)
    THEN LET saved == SaveTasks(filtered, st)
         IN  {Outcome(filtered, saved.storage,
                      IF saved.threw THEN "exception" ELSE "true")}
    ELSE {Outcome(filtered, st, "false")}

\* Array.prototype.find: the index of the first task with the id, 0 if none
FindIndex(ts, taskId) ==
    LET hits == {i \in 1..Len(ts) : ts[i].id = taskId}
    IN  IF hits = {} THEN 0 ELSE CHOOSE i \in hits : \A j \in hits : i <= j

\* toggleCompleteTask without the call of sortTasks
ToggleCompleteTaskUnsorted(ts, st, taskId) ==
    LET k == FindIndex(ts, taskId) IN
    IF k # 0
    THEN LET flipped == [ts EXCEPT ![k].isCompleted = ~@]
             saved == SaveTasks(flipped, st)
         IN  {Outcome(flipped, saved.storage,
                      IF saved.threw THEN "exception" ELSE "true")}
    ELSE {Outcome(ts, st, "false")}

ToggleCompleteTask(ts, st, taskId) ==
    LET k == FindIndex(ts, taskId) IN
    IF k # 0
    THEN {LET saved == SaveTasks(sorted, st)
          IN  Outcome(sorted, saved.storage,
                      IF saved.threw THEN "exception" ELSE "true")
          : sorted \in SortTasks([ts EXCEPT ![k].isCompleted = ~@])}
    ELSE {Outcome(ts, st, "false")}

\* getTaskById: the task found, as a sequence of one task, or <<>> for undefined
GetTaskById(ts, taskId) ==
    LET k == FindIndex(ts, taskId) IN IF k = 0 THEN <<>> ELSE <<ts[k]>>

-----------------------------------------------------------------------------
(* The inputs of the model *)

\* The value of the form's datetime-local input, "2025-06-01T10:00" say
Day1At10 == [fmt |-> "datetime-local", day |-> 1, hh |-> 10, mm |-> 0]
\* A full ISO string with seconds and milliseconds
Day2Late == [fmt |-> "iso", day |-> 2, hh |-> 23, mm |-> 59, ss |-> 59, ms |-> 999]
NotADate == [fmt |-> "text", s |-> "not-a-date"]
EmptyString == [fmt |-> "text", s |-> ""]

AddInput(name, description, dueDateStr, priority) ==
    [name |-> name, description |-> description,
     dueDateStr |-> dueDateStr, priority |-> priority]

\* The arguments addTask is called with
AddInputs ==
    {AddInput("Buy milk", "", Day1At10, "High"),
     AddInput("Call Bob", "about the keys", Day1At10, "Low"),
     AddInput("", "", Day2Late, "Medium"),
     AddInput("Buy milk", "", NotADate, "High"),
     AddInput("Buy milk", "", EmptyString, "Medium")}

\* Objects of a record that an earlier session left in localStorage
StoredA ==
    [id |-> "1", name |-> "Buy milk", description |-> "",
     dueDate |-> [fmt |-> "iso", day |-> 1, hh |-> 8, mm |-> 0, ss |-> 0, ms |-> 0],
     priority |-> "High", isCompleted |-> FALSE]
StoredB ==
    [id |-> "2", name |-> "Call Bob", description |-> "about the keys",
     dueDate |-> [fmt |-> "iso", day |-> 0, hh |-> 22, mm |-> 30, ss |-> 0, ms |-> 500],
     priority |-> "Low", isCompleted |-> TRUE]
\* the same without the id property (a record of the legacy format)
NoId(obj) == [p \in DOMAIN obj \ {"id"} |-> obj[p]]
\* a due date that does not parse
StoredX == [StoredA EXCEPT !.id = "2", !.dueDate = NotADate]
\* no dueDate property at all, and an earlier task of the same priority
StoredY == [p \in DOMAIN StoredA \ {"dueDate"} |-> StoredA[p]]
StoredC == [StoredA EXCEPT !.id = "2", !.name = "Pay rent", !.dueDate.day = 0]

\* What localStorage may hold under the key when the page is first opened
InitialRecords ==
    {NoRecord,
     [kind |-> "empty"],
     [kind |-> "garbage"],
     [kind |-> "object"],
     JsonArray(<<StoredA, JsonNull>>),
     JsonArray(<<StoredA, JsonNumber>>),
     JsonArray(<<StoredA, StoredB>>),
     JsonArray(<<StoredB, StoredA>>),
     JsonArray(<<NoId(StoredA), NoId(StoredB)>>),
     JsonArray(<<StoredX>>),
     JsonArray(<<StoredY, StoredA, StoredC>>)}

\* The ids remove, toggleComplete and getById are called with
IdArgs == {ToString(i) : i \in 1..MaxNow} \cup {"no-such-id"}

\* What Date.now() may return while n items are decoded, from the clock t on:
\* the clock may advance by one between two items.
ClockReadings(t, n) ==
    {[i \in 1..n |-> IF i <= k THEN t ELSE t + 1] :
        k \in IF t < MaxNow THEN 0..n ELSE {n}}

ItemCount(st) == IF st.kind = "array" THEN Len(st.items) ELSE 0

-----------------------------------------------------------------------------
(* The state machine *)

Called(op, ret) == [op |-> op, ret |-> ret]

\* What #progress-text holds before updateProgressText has written it
StaticProgressText == [html |-> "static"]

\* The page before the script has rendered anything
PageNotRendered ==
    /\ selectedTaskId = Null
    /\ currentConfirmCallback = Null
    /\ upcomingTasksList = <<>>
    /\ completedTasksList = <<>>
    /\ progressText = StaticProgressText
    /\ requestedTaskId = Null

\* new TaskManager() when the page is opened
Init ==
    /\ storage \in InitialRecords
    /\ now = 3
    /\ \E clk \in ClockReadings(3, ItemCount(storage)) :
          tasks = LoadTasks(storage, clk)
    /\ lastOp = Called("new", "object")
    /\ PageNotRendered

\* The clock advances.
Tick ==
    /\ now < MaxNow
    /\ now' = now + 1
    /\ UNCHANGED <<tasks, storage, lastOp, page>>

\* The page is opened again: new TaskManager()
Construct ==
    /\ \E clk \in ClockReadings(now, ItemCount(storage)) :
          /\ tasks' = LoadTasks(storage, clk)
          /\ now' = IF ItemCount(storage) = 0 THEN now
                    ELSE clk[ItemCount(storage)]
    /\ lastOp' = Called("new", "object")
    /\ UNCHANGED <<storage, page>>

Add(inp) ==
    /\ Len(tasks) < MaxTasks
    /\ \E out \in AddTask(tasks, storage, now, inp.name, inp.description,
                          inp.dueDateStr, inp.priority) :
          /\ tasks' = out.tasks
          /\ storage' = out.storage
          /\ lastOp' = Called("add", out.ret)
    /\ UNCHANGED <<now, page>>

Remove(taskId) ==
    /\ \E out \in RemoveTask(tasks, storage, taskId) :
          /\ tasks' = out.tasks
          /\ storage' = out.storage
          /\ lastOp' = Called("remove", out.ret)
    /\ UNCHANGED <<now, page>>

ToggleComplete(taskId) ==
    /\ \E out \in ToggleCompleteTask(tasks, storage, taskId) :
          /\ tasks' = out.tasks
          /\ storage' = out.storage
          /\ lastOp' = Called("toggle", out.ret)
    /\ UNCHANGED <<now, page>>

GetById(taskId) ==
    /\ lastOp' = Called("getById", IF GetTaskById(tasks, taskId) = <<>>
                                   THEN "undefined" ELSE "task")
    /\ UNCHANGED <<tasks, storage, now, page>>

\* taskManager.sortTasks(), as updateTaskListUI calls it before it renders
Sort ==
    /\ tasks' \in SortTasks(tasks)
    /\ lastOp' = Called("sort", "undefined")
    /\ UNCHANGED <<storage, now, page>>

Next ==
    \/ Tick
    \/ Construct
    \/ \E inp \in AddInputs : Add(inp)
    \/ \E taskId \in IdArgs : Remove(taskId)
    \/ \E taskId \in IdArgs : ToggleComplete(taskId)
    \/ \E taskId \in IdArgs : GetById(taskId)
    \/ Sort

Spec == Init /\ [][Next]_vars

-----------------------------------------------------------------------------
(* The page: rendering and the event handlers, as functions of the store ts, *)
(* the record st and the page's variables pg.  Each gives the set of states  *)
(* the handler may end in; a handler ends at the first exception it meets,   *)
(* with everything it has done until then in place.                          *)

Page(selected, callback, upcoming, completed, progress) ==
    [selectedTaskId         |-> selected,
     currentConfirmCallback |-> callback,
     upcomingTasksList      |-> upcoming,
     completedTasksList     |-> completed,
     progressText           |-> progress]

\* What a handler leaves: ret is "exception" when an exception ended it,
\* else what its TaskManager call returned, "none" when it made no call.
After(ts, st, pg, ret) == [tasks |-> ts, storage |-> st, page |-> pg, ret |-> ret]

\* The arrow function deleteTaskBtn hands to showConfirmModal
DeleteSelectedTask == "() => removeTask(selectedTaskId)"

\* updateProgressText
ProgressText(ts) ==
    [completedCount |-> Len(SelectSeq(ts, LAMBDA task : task.isCompleted)),
     totalCount     |-> Len(ts)]

\* updateTaskListUI: both lists are emptied, the store is sorted (and not
\* saved), an item is appended for each task in store order, then the
\* progress text is written.  task.priority.toLowerCase() throws a TypeError
\* on an undefined priority: the items before that task stay rendered and the
\* progress text stays what it was.
UpdateTaskListUI(ts, pg) ==
    {LET bad == {i \in 1..Len(sorted) : sorted[i].priority = Undefined}
         n == IF bad = {} THEN Len(sorted)
              ELSE (CHOOSE i \in bad : \A j \in bad : i <= j) - 1
         shown == SubSeq(sorted, 1, n)
     IN  [tasks |-> sorted,
          page  |-> [pg EXCEPT
                       !.upcomingTasksList =
                           SelectSeq(shown, LAMBDA task : ~task.isCompleted),
                       !.completedTasksList =
                           SelectSeq(shown, LAMBDA task : task.isCompleted),
                       !.progressText =
                           IF bad = {} THEN ProgressText(sorted) ELSE @],
          threw |-> bad # {}]
     : sorted \in SortTasks(ts)}

\* clearTaskDetails
ClearTaskDetails(pg) == [pg EXCEPT !.selectedTaskId = Null]

\* updateTaskListUI(); clearTaskDetails(); at the end of a handler whose
\* TaskManager call returned ret
RenderAndClear(ts, st, pg, ret) ==
    {IF r.threw THEN After(r.tasks, st, r.page, "exception")
     ELSE After(r.tasks, st, ClearTaskDetails(r.page), ret)
     : r \in UpdateTaskListUI(ts, pg)}

\* The click handler of a task item rendered for the task with this id
TaskItemClick(ts, st, pg, taskId) ==
    {After(ts, st, [pg EXCEPT !.selectedTaskId = taskId], "none")}

\* toggleCompleteTask(taskId); updateTaskListUI(); clearTaskDetails();
ToggleAndRender(ts, st, pg, taskId) ==
    UNION {IF out.ret = "exception"
           THEN {After(out.tasks, out.storage, pg, "exception")}
           ELSE RenderAndClear(out.tasks, out.storage, pg, out.ret)
           : out \in ToggleCompleteTask(ts, st, taskId)}

\* The change handler of the checkbox of a task item
CheckboxChange(ts, st, pg, taskId) == ToggleAndRender(ts, st, pg, taskId)

\* String.prototype.trim on the texts the model types into the form: Blank
\* is the one that has white space at its ends
Blank == "   "
Trim(text) == IF text = Blank THEN "" ELSE text

\* The submit handler of addTaskForm, the form holding inp, at clock t
AddTaskFormSubmit(ts, st, pg, t, inp) ==
    LET name == Trim(inp.name)
        description == Trim(inp.description)
    IN  IF name # "" /\ inp.dueDateStr # EmptyString
        THEN UNION {IF out.ret = "true"
                    THEN RenderAndClear(out.tasks, out.storage, pg, "true")
                    ELSE {After(out.tasks, out.storage, pg, out.ret)}
                    : out \in AddTask(ts, st, t, name, description,
                                      inp.dueDateStr, inp.priority)}
        ELSE {After(ts, st, pg, "none")}

\* The click handler of toggleCompleteBtn
ToggleCompleteBtnClick(ts, st, pg) ==
    IF pg.selectedTaskId # Null
    THEN ToggleAndRender(ts, st, pg, pg.selectedTaskId)
    ELSE {After(ts, st, pg, "none")}

\* The click handler of deleteTaskBtn: showConfirmModal installs the callback
DeleteTaskBtnClick(ts, st, pg) ==
    IF pg.selectedTaskId # Null
    THEN {After(ts, st, [pg EXCEPT !.currentConfirmCallback = DeleteSelectedTask],
                "none")}
    ELSE {After(ts, st, pg, "none")}

\* The click handler of confirmActionBtn: the callback reads selectedTaskId
\* when it runs; the callback is cleared only if it returns.
ConfirmActionBtnClick(ts, st, pg) ==
    LET cleared(q) == [q EXCEPT !.currentConfirmCallback = Null] IN
    IF pg.currentConfirmCallback # Null
    THEN UNION {IF out.ret = "exception"
                THEN {After(out.tasks, out.storage, pg, "exception")}
                ELSE IF out.ret = "true"
                THEN {IF a.ret = "exception" THEN a
                      ELSE [a EXCEPT !.page = cleared(@)]
                      : a \in RenderAndClear(out.tasks, out.storage, pg, "true")}
                ELSE {After(out.tasks, out.storage, cleared(pg), "false")}
                : out \in RemoveTask(ts, st, pg.selectedTaskId)}
    ELSE {After(ts, st, cleared(pg), "none")}

\* The click handler of cancelConfirmBtn
CancelConfirmBtnClick(ts, st, pg) ==
    {After(ts, st, [pg EXCEPT !.currentConfirmCallback = Null], "none")}

\* The script run when the page is opened on the record st: new
\* TaskManager(), the listeners, updateTaskListUI(); clearTaskDetails();
PageLoad(st, clk) ==
    RenderAndClear(LoadTasks(st, clk), st,
                   Page(Null, Null, <<>>, <<>>, StaticProgressText), "none")

-----------------------------------------------------------------------------
(* The page as a state machine *)

\* What the form of the add dialog is submitted with
FormInputs == AddInputs \cup {AddInput(Blank, "", Day1At10, "Low")}

\* The page's variables as a record
ThePage ==
    Page(selectedTaskId, currentConfirmCallback, upcomingTasksList,
         completedTasksList, progressText)

\* The ids of the task items in the document
RenderedIds ==
    {task.id : task \in Range(upcomingTasksList) \cup Range(completedTasksList)}

\* The handler named op ends in the state a
Handled(op, a) ==
    /\ tasks' = a.tasks
    /\ storage' = a.storage
    /\ selectedTaskId' = a.page.selectedTaskId
    /\ currentConfirmCallback' = a.page.currentConfirmCallback
    /\ upcomingTasksList' = a.page.upcomingTasksList
    /\ completedTasksList' = a.page.completedTasksList
    /\ progressText' = a.page.progressText
    /\ requestedTaskId' =
          IF a.page.currentConfirmCallback = Null THEN Null
          ELSE IF op = "deleteClick" /\ selectedTaskId # Null THEN selectedTaskId
          ELSE requestedTaskId
    /\ lastOp' = Called(op, a.ret)

InitUI ==
    /\ now = 3
    /\ requestedTaskId = Null
    /\ \E st \in InitialRecords :
          \E clk \in ClockReadings(3, ItemCount(st)) :
             \E a \in PageLoad(st, clk) :
                /\ tasks = a.tasks
                /\ storage = a.storage
                /\ selectedTaskId = a.page.selectedTaskId
                /\ currentConfirmCallback = a.page.currentConfirmCallback
                /\ upcomingTasksList = a.page.upcomingTasksList
                /\ completedTasksList = a.page.completedTasksList
                /\ progressText = a.page.progressText
                /\ lastOp = Called("load", a.ret)

\* The page is opened again.
Reload ==
    /\ \E clk \in ClockReadings(now, ItemCount(storage)) :
          /\ \E a \in PageLoad(storage, clk) : Handled("load", a)
          /\ now' = IF ItemCount(storage) = 0 THEN now
                    ELSE clk[ItemCount(storage)]

SelectTask(taskId) ==
    /\ taskId \in RenderedIds
    /\ \E a \in TaskItemClick(tasks, storage, ThePage, taskId) :
          Handled("select", a)
    /\ UNCHANGED now

Checkbox(taskId) ==
    /\ taskId \in RenderedIds
    /\ \E a \in CheckboxChange(tasks, storage, ThePage, taskId) :
          Handled("checkbox", a)
    /\ UNCHANGED now

Submit(inp) ==
    /\ Len(tasks) < MaxTasks
    /\ \E a \in AddTaskFormSubmit(tasks, storage, ThePage, now, inp) :
          Handled("submit", a)
    /\ UNCHANGED now

ToggleClick ==
    /\ \E a \in ToggleCompleteBtnClick(tasks, storage, ThePage) :
          Handled("toggleClick", a)
    /\ UNCHANGED now

DeleteClick ==
    /\ \E a \in DeleteTaskBtnClick(tasks, storage, ThePage) :
          Handled("deleteClick", a)
    /\ UNCHANGED now

ConfirmClick ==
    /\ \E a \in ConfirmActionBtnClick(tasks, storage, ThePage) :
          Handled("confirm", a)
    /\ UNCHANGED now

CancelClick ==
    /\ \E a \in CancelConfirmBtnClick(tasks, storage, ThePage) :
          Handled("cancel", a)
    /\ UNCHANGED now

NextUI ==
    \/ Tick
    \/ Reload
    \/ \E taskId \in IdArgs : SelectTask(taskId)
    \/ \E taskId \in IdArgs : Checkbox(taskId)
    \/ \E inp \in FormInputs : Submit(inp)
    \/ ToggleClick
    \/ DeleteClick
    \/ ConfirmClick
    \/ CancelClick

SpecUI == InitUI /\ [][NextUI]_vars

-----------------------------------------------------------------------------
(* Vocabulary of the properties *)

Mutations == {"add", "remove", "toggle"}

ValidDates(ts) == \A i \in 1..Len(ts) : ts[i].dueDate # NaN

\* (isCompleted, priorityRank, dueDate) of a is less than or equal to that of
\* b, in lexicographic order; an Invalid Date is not comparable, nor is a
\* priority without a rank.
CompletedRank(task) == IF task.isCompleted THEN 1 ELSE 0
KeyLeq(a, b) ==
    \/ CompletedRank(a) < CompletedRank(b)
    \/ /\ CompletedRank(a) = CompletedRank(b)
       /\ PriorityRank(a.priority) # NaN
       /\ PriorityRank(b.priority) # NaN
       /\ \/ PriorityRank(a.priority) < PriorityRank(b.priority)
          \/ /\ PriorityRank(a.priority) = PriorityRank(b.priority)
             /\ a.dueDate # NaN
             /\ b.dueDate # NaN
             /\ a.dueDate <= b.dueDate

IsSortedStore(ts) == \A i \in 1..(Len(ts) - 1) : KeyLeq(ts[i], ts[i + 1])

\* s and t hold the same tasks the same number of times
Count(s, x) == Cardinality({i \in 1..Len(s) : s[i] = x})
SameTasks(s, t) ==
    /\ Len(s) = Len(t)
    /\ \A x \in Range(s) \cup Range(t) : Count(s, x) = Count(t, x)

\* The record a save of the store ts writes
RecordOf(ts) == JsonArray([i \in 1..Len(ts) |-> TaskToObject(ts[i])])

\* A restart on the record st yields the store ts, whatever the clock reads
RestartYields(st, ts) ==
    \A clk \in ClockReadings(now, ItemCount(st)) : LoadTasks(st, clk) = ts

\* The shortcut of ConsistentComparator is sound on every store reached.
NeverNaNIsConsistent == NeverNaN(tasks) => ConsistencyConditions(tasks)

-----------------------------------------------------------------------------
(* C1 *)

\* C1: in every reachable state the tasks of the store have pairwise distinct
\* ids (tasks created within one clock tick and records loaded without an id
\* included).
C1_UniqueIds ==
    \A i, j \in 1..Len(tasks) : i # j => tasks[i].id # tasks[j].id

-----------------------------------------------------------------------------
(* C2 *)

\* C2: the store is ordered by the sort rule after every mutation and before
\* every read, the reads that follow construction included.  getById can be
\* called in every state, so every reachable state is the state before a read:
\* for every adjacent pair (a, b) of the store the key of a is <= the key of b.
C2_SortedBeforeEveryRead == IsSortedStore(tasks)

-----------------------------------------------------------------------------
(* C3 *)

\* C3: after every mutation (add, remove, toggleComplete) that returned
\* success, the persisted record is the serialization of the whole store in
\* its current order, and a restart on that record yields the same tasks in
\* the same order, field for field.
C3_PersistedAfterSuccess ==
    (lastOp.op \in Mutations /\ lastOp.ret = "true")
        => /\ storage = RecordOf(tasks)
           /\ RestartYields(storage, tasks)

\* A mutation has succeeded on a store that holds a due date with seconds and
\* milliseconds and one given in local time.
C3_Witness ==
    /\ lastOp.op \in Mutations
    /\ lastOp.ret = "true"
    /\ \E i, j \in 1..Len(tasks) :
          /\ tasks[i].dueDate % MsPerSecond # 0
          /\ tasks[j].dueDate = DateParse(Day1At10)

-----------------------------------------------------------------------------
(* C4 *)

\* C4: load(save(T)) = T for any task collection T in which every task has an
\* id: saving the store and loading the record gives the same tasks in the
\* same order with the same fields.
C4_RoundTrip ==
    (\A i \in 1..Len(tasks) : tasks[i].id # "")
        => LET saved == SaveTasks(tasks, NoRecord)
           IN  /\ ~saved.threw
               /\ RestartYields(saved.storage, tasks)

-----------------------------------------------------------------------------
(* C5 *)

StoreUnchanged == tasks' = tasks /\ storage' = storage

\* C5: add with a dueDateInput that does not parse to a valid timestamp
\* reports failure and leaves the store (contents and order) and the
\* persisted record unchanged, from any store state.
C5_AddRejectsUnparseableDate ==
    [][\A inp \in AddInputs :
          (lastOp'.op = "add" /\ DateParse(inp.dueDateStr) = NaN /\ Add(inp))
              => (lastOp'.ret = "false" /\ StoreUnchanged)]_vars

\* add has reported failure on a store that holds a task and whose due dates
\* are all valid, so that saving cannot have failed: the input was rejected.
C5_Witness ==
    /\ lastOp = Called("add", "false")
    /\ tasks # <<>>
    /\ ValidDates(tasks)
    /\ storage = RecordOf(tasks)

-----------------------------------------------------------------------------
(* C6 *)

\* C6: add with a non-empty name and a parseable dueDateInput returns success
\* from any store state, increases the store size by exactly 1, and getById
\* with the id of the new task returns a task holding the given name,
\* description, dueDate and priority with isCompleted = FALSE.
C6_AddAcceptsValidInput ==
    [][\A inp \in AddInputs :
          (lastOp'.op = "add" /\ inp.name # ""
             /\ DateParse(inp.dueDateStr) # NaN /\ Add(inp))
              => /\ lastOp'.ret = "true"
                 /\ Len(tasks') = Len(tasks) + 1
                 /\ GetTaskById(tasks', ToString(now))
                      = <<Task(now, inp.name, inp.description,
                               DateParse(inp.dueDateStr), inp.priority, FALSE)>>]_vars

-----------------------------------------------------------------------------
(* C7 *)

\* C7: task creation with an empty name or an empty dueDateInput is rejected:
\* add makes no mutation to the store or the persisted record and reports
\* failure, so no task with an empty name ever exists in the store.
C7_AddRejectsEmptyNameOrDate ==
    /\ [](\A i \in 1..Len(tasks) : tasks[i].name # "")
    /\ [][\A inp \in AddInputs :
             (lastOp'.op = "add"
                /\ (inp.name = "" \/ inp.dueDateStr = EmptyString) /\ Add(inp))
                 => (lastOp'.ret = "false" /\ StoreUnchanged)]_vars

-----------------------------------------------------------------------------
(* C8 *)

\* the sequence s without its k-th element
Without(s, k) == SubSeq(s, 1, k - 1) \o SubSeq(s, k + 1, Len(s))

\* C8: remove(id) with a task of that id present removes that task and only
\* that task: afterwards no task has the id, the size has decreased by exactly
\* 1, every other task is still there with its fields and its relative order,
\* the result is persisted, and success is returned.
C8_RemoveRemovesOnlyThatTask ==
    [][\A taskId \in IdArgs :
          (lastOp'.op = "remove" /\ FindIndex(tasks, taskId) # 0 /\ Remove(taskId))
              => /\ FindIndex(tasks', taskId) = 0
                 /\ Len(tasks') = Len(tasks) - 1
                 /\ tasks' = Without(tasks, FindIndex(tasks, taskId))
                 /\ ValidDates(tasks') /\ storage' = RecordOf(tasks')
                 /\ lastOp'.ret = "true"]_vars

-----------------------------------------------------------------------------
(* C9 *)

\* C9: remove(id) and toggleComplete(id) with an id that matches no task
\* return failure without raising an exception, and leave the store's size,
\* contents and order and the persisted record unchanged.
C9_UnknownIdIsNoOp ==
    [][\A taskId \in IdArgs :
          (lastOp'.op \in {"remove", "toggle"}
             /\ FindIndex(tasks, taskId) = 0
             /\ (Remove(taskId) \/ ToggleComplete(taskId)))
              => (lastOp'.ret = "false" /\ StoreUnchanged)]_vars

\* remove has returned failure on a store that holds tasks and differs from
\* what the record holds.
C9_Witness ==
    /\ lastOp = Called("remove", "false")
    /\ tasks # <<>>
    /\ storage.kind = "array"
    /\ RestartYields(storage, tasks) = FALSE

-----------------------------------------------------------------------------
(* C10 *)

\* C10: on every reachable store, toggleComplete(id) with a present id flips
\* isCompleted of the task with that id (the one find returns) and of no
\* other, and re-sorts: a task toggled to completed stands after every task
\* that is still incomplete, a task toggled back stands before every
\* completed task.
C10_ToggleFlipsAndReorders ==
    \A taskId \in IdArgs :
        FindIndex(tasks, taskId) # 0
            => \A out \in ToggleCompleteTask(tasks, storage, taskId) :
                  LET k == FindIndex(tasks, taskId)
                      flipped == [tasks[k] EXCEPT !.isCompleted = ~@]
                  IN  /\ SameTasks(out.tasks, [tasks EXCEPT ![k] = flipped])
                      /\ \E m \in 1..Len(out.tasks) :
                            /\ out.tasks[m] = flipped
                            /\ \A j \in 1..Len(out.tasks) \ {m} :
                                  IF flipped.isCompleted
                                  THEN ~out.tasks[j].isCompleted => j < m
                                  ELSE out.tasks[j].isCompleted => m < j

\* A (High, day 1) and B (Low, day 1) were both incomplete with A first; A
\* has been toggled and now stands after B.
C10_Witness ==
    /\ lastOp.op = "toggle"
    /\ Len(tasks) = 2
    /\ tasks[1].priority = "Low" /\ ~tasks[1].isCompleted
    /\ tasks[2].priority = "High" /\ tasks[2].isCompleted
    /\ tasks[1].dueDate = tasks[2].dueDate
    /\ tasks[1].id # tasks[2].id

-----------------------------------------------------------------------------
(* C11 *)

\* C11: whatever tasks the store holds, every store sort() may leave is a
\* permutation of the same tasks in which, for every adjacent pair (a, b), the
\* key (completed, priorityRank, dueDate) of a is <= the key of b.
C11_SortOrdersByKey ==
    \A sorted \in SortTasks(tasks) :
        SameTasks(sorted, tasks) /\ IsSortedStore(sorted)

-----------------------------------------------------------------------------
(* C12 *)

\* C12: in every reachable state every task of the store has a valid due
\* date, whether add created the task or load rebuilt it from a record.
C12_ValidDueDates == ValidDates(tasks)

-----------------------------------------------------------------------------
(* C13 *)

\* C13: no exception escapes add, remove or toggleComplete and each of them
\* leaves a store that is sorted and holds valid due dates; when add reports
\* failure, the store and the persisted record are what they were before the
\* call, so that they agree as they did.
C13_NoEscapeAndFailedAddRollsBack ==
    [][(lastOp'.op \in Mutations
          /\ \/ \E inp \in AddInputs : Add(inp)
             \/ \E taskId \in IdArgs : Remove(taskId) \/ ToggleComplete(taskId))
        => /\ lastOp'.ret # "exception"
           /\ ValidDates(tasks')
           /\ IsSortedStore(tasks')
           /\ lastOp' = Called("add", "false")
                => StoreUnchanged]_vars

-----------------------------------------------------------------------------
(* C14 *)

\* The record decodes into a sequence of task objects.
IsTaskObject(item) == "json" \notin DOMAIN item
Decodable(st) ==
    st.kind = "array" /\ \A i \in 1..Len(st.items) : IsTaskObject(st.items[i])

\* C14: the store new TaskManager() builds is empty when there is no record
\* under the key and when the record does not decode into a sequence of task
\* objects (text that does not parse, JSON that is not a sequence, a sequence
\* holding a non-object element); load raises no exception in either case.
C14_UndecodableRecordLoadsEmpty ==
    (lastOp.op = "new" /\ ~Decodable(storage)) => tasks = <<>>

-----------------------------------------------------------------------------
(* C17 *)

\* t holds the tasks of s with isCompleted of exactly one of them flipped and
\* no other field changed
OneFlagFlipped(s, t) ==
    \E k \in 1..Len(s) : SameTasks(t, [s EXCEPT ![k].isCompleted = ~@])

\* C17: toggleComplete(id) called twice in a row with a present id flips
\* isCompleted of exactly one task on each call and changes no other field,
\* and after the second call the store holds the tasks it held before the
\* first, every field as it was, and is sorted again.
C17_ToggleTwiceRestores ==
    \A taskId \in IdArgs :
        FindIndex(tasks, taskId) # 0
            => \A first \in ToggleCompleteTask(tasks, storage, taskId) :
                  /\ OneFlagFlipped(tasks, first.tasks)
                  /\ \A second \in ToggleCompleteTask(first.tasks, first.storage,
                                                      taskId) :
                        /\ OneFlagFlipped(first.tasks, second.tasks)
                        /\ SameTasks(second.tasks, tasks)
                        /\ IsSortedStore(second.tasks)

-----------------------------------------------------------------------------
(* C15 *)

\* The number of tasks of ts that have the id
IdCount(ts, taskId) == Cardinality({i \in 1..Len(ts) : ts[i].id = taskId})

\* Some task of the store is no longer in it after the step.
SomeTaskRemoved ==
    \E i \in 1..Len(tasks) : IdCount(tasks', tasks[i].id) < IdCount(tasks, tasks[i].id)

\* C15: a task leaves the store only through the confirmation step.  The
\* click on delete changes neither the store nor the record; a handler that
\* removes a task is the confirm handler run while a delete request is
\* pending; and after the cancel handler or the confirm handler has run, no
\* request is pending any more, so that a later confirm removes nothing.
C15_RemovalOnlyThroughConfirm ==
    [][/\ (lastOp'.op = "deleteClick" /\ DeleteClick) => StoreUnchanged
       /\ (lastOp'.op # "load" /\ SomeTaskRemoved)
            => (lastOp'.op = "confirm" /\ currentConfirmCallback # Null)
       /\ (lastOp'.op \in {"confirm", "cancel"} /\ (ConfirmClick \/ CancelClick))
            => currentConfirmCallback' = Null]_vars

-----------------------------------------------------------------------------
(* C16 *)

\* C16: when a pending delete is confirmed, the task removed is the one that
\* was selected when delete was clicked, whatever handlers ran in between:
\* after the confirm handler no task with the requested id is left in the
\* store, and every task with another id is still there.
C16_ConfirmRemovesRequestedTask ==
    [][(lastOp'.op = "confirm" /\ currentConfirmCallback # Null /\ ConfirmClick)
          => /\ IdCount(tasks', requestedTaskId) = 0
             /\ \A i \in 1..Len(tasks) :
                   tasks[i].id # requestedTaskId
                       => IdCount(tasks', tasks[i].id) = IdCount(tasks, tasks[i].id)]_vars

-----------------------------------------------------------------------------
(* C18 *)

\* The handlers that change the store, and a run of one that succeeded
StoreHandlers == {"submit", "checkbox", "toggleClick", "confirm"}

\* C18: in every state in which the last event handler has returned,
\* selectedTaskId is null or the id of a task of the store, and it is null
\* when that handler was an add, a toggle or a confirmed delete that
\* succeeded.
C18_SelectionIsNullOrInStore ==
    lastOp.ret # "exception"
        => /\ selectedTaskId = Null \/ IdCount(tasks, selectedTaskId) > 0
           /\ (lastOp.op \in StoreHandlers /\ lastOp.ret = "true")
                 => selectedTaskId = Null

-----------------------------------------------------------------------------
(* C19 *)

\* C19: in every state in which the last event handler has returned, the
\* upcoming list shows exactly the incomplete tasks of the store and the
\* completed list exactly the completed ones, each in store order and each
\* task once, and the progress text shows the number of completed tasks out
\* of the size of the store.
C19_ListsAgreeWithStore ==
    lastOp.ret # "exception"
        => /\ upcomingTasksList = SelectSeq(tasks, LAMBDA task : ~task.isCompleted)
           /\ completedTasksList = SelectSeq(tasks, LAMBDA task : task.isCompleted)
           /\ progressText = ProgressText(tasks)

====
